---- MODULE Spec2Model ----
(***************************************************************************)
(* Real-time delivery and receipt tracking core of the chat backend        *)
(* (src/skillarena_chat): the connection registry, the submit path of a    *)
(* websocket handler, the chat-history request and block_user, over one    *)
(* thread collection of the document store.                                *)
(*                                                                         *)
(* Every "await" of the source is a scheduling point of the asyncio loop:  *)
(* one action of this module is the code that runs between two awaits,     *)
(* together with the store or transport operation the await performs.      *)
(* Code that touches no shared state (building the Message, selecting the  *)
(* messages to mark) is taken together with the await that follows or      *)
(* precedes it.                                                            *)
(*                                                                         *)
(* chats is the collection the submit and chat-history paths of            *)
(* utils/services.py work on. block_user, which main.py imports from the   *)
(* same module, is defined in src only in services/chat.py and is applied  *)
(* to that collection; so are get_recipients_list and create_initial_chat  *)
(* of services/chat.py, which ConnectionManager.connect calls after it has *)
(* registered the websocket. connect and ConnectError take the recipient   *)
(* list as one step that succeeds or raises; ConnectLookup,                *)
(* create_initial_chat, InitialGet and RecipientListError are its steps    *)
(* for a store that holds only what this program writes.                   *)
(* send_personal_message and send_receipt_update of the manager are not in *)
(* src: they follow the specification (a push to an absent user is no      *)
(* error; a transport error is swallowed and unregisters the user).        *)
(***************************************************************************)
EXTENDS Integers, Sequences, FiniteSets, TLC

\* ------------------------------------------------------------------ bounds
MaxSubmits == 2     \* payloads received over all connections
MaxOpens == 1       \* chat-history requests
MaxBlocks == 1      \* block_user requests

\* User identities are strings in the source; they are modelled by integers
\* so that sorted([u1, u2]) has an order to sort by.
Users == {1, 2}
Conns == {1, 2}               \* websocket connections, in order of arrival
Reqs == 1..MaxOpens           \* chat-history requests (handler tasks)

Others == {3}                 \* identities that open no websocket
skillarena == 4               \* the system identity "skillarena"; user ids are
                              \* hexadecimal strings, which sort before it
NoUser == 0                   \* a missing / empty receiver, or "no user"
NoConn == 0                   \* no registry entry
NoBody == ""                  \* a missing / empty message text
Bodies == {"hi"}
NoId == <<"none", 0>>         \* the payload carries no "_id"
ClientIds == {<<"cli", 1>>}   \* "_id" values a client payload can carry
Statuses == {"sent", "delivered", "read"}

VARIABLES
    chats,               \* the thread collection, in natural (insertion) order
    active_connections,  \* ConnectionManager.active_connections
    pc,                  \* position of each websocket handler
    conn_user,           \* user_id of each websocket handler
    alive,               \* whether the connection's transport is still open
    chat_message,        \* local of the submit in progress on each connection
    chat_doc,            \* local chat_doc of the submit in progress
    outbox,              \* events each connection's client has been sent
    next_oid,            \* ObjectId generator
    hpc,                 \* position of each chat-history request
    hreq,                \* current_user / other_user_id of each request
    hchat,               \* local chat (the looked-up document) of each request
    htodo,               \* to_update_delivered_messages still to be updated
    nsubmits,            \* payloads received so far
    nblocks,             \* block_user requests so far
    started,             \* history: what each submit in progress found, and
                         \* the sender its payload named
    completed,           \* history: submits whose handler returned normally
    hmoved,              \* history: messages a request set to read, with the
                         \* connection the message's sender had at that moment
    clock,               \* the last reading of datetime.utcnow()
    appended             \* history: the clock reading at which the message
                         \* of each submit was appended, 0 before

vars == <<chats, active_connections, pc, conn_user, alive, chat_message,
          chat_doc, outbox, next_oid, hpc, hreq, hchat, htodo,
          nsubmits, nblocks, started, completed, hmoved, clock, appended>>

connVars == <<pc, conn_user, alive, chat_message, chat_doc, started>>
histVars == <<hpc, hreq, hchat, htodo, hmoved>>
timeVars == <<clock, appended>>

\* ----------------------------------------------------------------- records
NoStart == [nothread |-> FALSE, nolive |-> FALSE, claimed |-> NoUser]
NoMessage == [n |-> 0, id |-> NoId, sender |-> NoUser, receiver |-> NoUser,
              status |-> "sent", message |-> NoBody]
NoDoc == [_id |-> 0, is_blocked |-> FALSE, messages |-> <<>>]
NoReq == [current_user |-> NoUser, other_user_id |-> NoUser]

\* The Message built from the payload as the client sent it: the sender is
\* the one the payload carries, when it carries one.
MessageFromPayload(data, user_id, oid, serial) ==
    [n |-> serial,
     id |-> IF data.id = NoId THEN <<"oid", oid>> ELSE data.id,
     sender |-> IF data.sender = NoUser THEN user_id ELSE data.sender,
     receiver |-> data.receiver,
     status |-> data.status,
     message |-> data.message]

\* process_websocket_message: data["sender"] = user_id, whatever the payload
\* carried under that key.
SetSender(data, user_id) == [data EXCEPT !.sender = user_id]

\* data["sender"] = user_id; Message(**data): "_id" populates id (default a
\* fresh ObjectId), status defaults to "sent".
\* n is a history field: the serial number of the submit, used only to tell
\* messages apart in the properties (the code never reads it).
Message(data, user_id, oid, serial) ==
    [n |-> serial,
     id |-> IF data.id = NoId THEN <<"oid", oid>> ELSE data.id,
     sender |-> SetSender(data, user_id).sender,
     receiver |-> data.receiver,
     status |-> data.status,
     message |-> data.message]

\* models.py ChatMessage(messages, users, created_at, last_updated):
\* is_blocked False, blocked_by None. The callers pass two readings of the
\* clock taken one after the other, without an await between them: they are
\* one reading t here, and only last_updated is kept (nothing reads
\* created_at).
ChatMessage(messages, users, t) ==
    [users |-> users, messages |-> messages,
     is_blocked |-> FALSE, blocked_by |-> NoUser, last_updated |-> t]

\* The payloads a client can send: receiver and message may be missing, "_id",
\* status and sender may be supplied.
Payloads ==
    [id : {NoId} \cup ClientIds,
     sender : Users \cup {NoUser},
     receiver : Users \cup {NoUser},
     status : Statuses,
     message : Bodies \cup {NoBody}]

\* The payloads of a client that sends only receiver and message.
PlainPayloads ==
    {data \in Payloads :
        data.id = NoId /\ data.status = "sent" /\ data.sender = NoUser}

\* The payloads of a client that may also choose the message id.
IdPayloads == {data \in Payloads : data.status = "sent" /\ data.sender = NoUser}

\* The payloads of a client that sends only receiver and message, to users
\* and to identities that are never connected.
WidePayloads ==
    [id : {NoId}, sender : {NoUser}, receiver : Users \cup Others,
     status : {"sent"}, message : Bodies]

\* The payloads of a client that may also choose the message id and the
\* status.
StatusPayloads == {data \in Payloads : data.sender = NoUser}

\* The payloads of a client that may also name a sender.
SenderPayloads == {data \in Payloads : data.id = NoId /\ data.status = "sent"}

\* ----------------------------------------------------------------- store
unsorted(u1, u2) == <<u1, u2>>

\* Python sorted([user_id1, user_id2])
sorted(u1, u2) == IF u1 <= u2 THEN <<u1, u2>> ELSE <<u2, u1>>

Min(S) == CHOOSE x \in S : \A y \in S : x <= y

Matching(users) == {i \in DOMAIN chats : chats[i].users = users}

\* get_chat: find_one({"users": sorted pair}); the first matching document in
\* natural order, 0 (None) when there is none. A document's _id is its index.
get_chat(user_id1, user_id2) ==
    LET ids == Matching(sorted(user_id1, user_id2))
    IN IF ids = {} THEN 0 ELSE Min(ids)

\* The document as the caller holds it after get_chat.
Snapshot(i) ==
    IF i = 0 THEN NoDoc
    ELSE [_id |-> i, is_blocked |-> chats[i].is_blocked,
          messages |-> chats[i].messages]

\* insert_one(doc)
insert_one(doc) == Append(chats, doc)

\* The message put in front of the stored ones.
PushMessageFront(i, m, t) ==
    IF i \in DOMAIN chats
    THEN [chats EXCEPT ![i].messages = <<m>> \o @, ![i].last_updated = t]
    ELSE chats

\* The $push without the $set of last_updated.
PushMessageNoStamp(i, m, t) ==
    IF i \in DOMAIN chats
    THEN [chats EXCEPT ![i].messages = Append(@, m)]
    ELSE chats

\* The $set of last_updated applied to every thread of the collection.
PushMessageTouchAll(i, m, t) ==
    IF i \in DOMAIN chats
    THEN [k \in DOMAIN chats |->
            IF k = i
            THEN [chats[k] EXCEPT !.messages = Append(@, m),
                                  !.last_updated = t]
            ELSE [chats[k] EXCEPT !.last_updated = t]]
    ELSE chats

\* update_one({"_id": i},
\*            {"$push": {"messages": m}, "$set": {"last_updated": t}})
PushMessage(i, m, t) ==
    IF i \in DOMAIN chats
    THEN [chats EXCEPT ![i].messages = Append(@, m), ![i].last_updated = t]
    ELSE chats

\* The positional operator $ of {"messages.id": mid}: the first array element
\* whose id is mid; 0 when the filter matches no element.
FirstWithId(messages, mid) ==
    LET js == {j \in DOMAIN messages : messages[j].id = mid}
    IN IF js = {} THEN 0 ELSE Min(js)

SetStatusNoop(i, mid, status) == chats

\* update_one({"_id": i, "messages.id": mid},
\*            {"$set": {"messages.$.status": status}})
SetStatus(i, mid, status) ==
    IF i \in DOMAIN chats /\ FirstWithId(chats[i].messages, mid) # 0
    THEN [chats EXCEPT
            ![i].messages[FirstWithId(chats[i].messages, mid)].status = status]
    ELSE chats

\* ------------------------------------------------------- connection manager
\* chat_id is the thread id an event carries: the calls of the submit pass
\* the message (or its id) and a status, and no thread id.
Event(type, m, status) ==
    [type |-> type, n |-> m.n, id |-> m.id, sender |-> m.sender,
     status |-> status, message |-> m.message, chat_id |-> NoDoc._id]

\* A push to user_id's registered connection. Absent user: nothing happens.
\* Closed transport: the transport error is swallowed and the stale entry is
\* removed. Stalled transport: the push does not wait for it, and the event
\* does not reach the client. Otherwise the event reaches the connection's
\* client.
PushOutbox(user_id, ev) ==
    IF user_id \in Users /\ active_connections[user_id] # NoConn
           /\ alive[active_connections[user_id]]
           /\ pc[active_connections[user_id]] # "stalled"
    THEN [outbox EXCEPT ![active_connections[user_id]] = Append(@, ev)]
    ELSE outbox

PushRegistry(user_id) ==
    IF user_id \in Users /\ active_connections[user_id] # NoConn
           /\ ~alive[active_connections[user_id]]
    THEN [active_connections EXCEPT ![user_id] = NoConn]
    ELSE active_connections

\* manager.send_personal_message(message_json, user_id)
send_personal_message(m, user_id) ==
    /\ outbox' = PushOutbox(user_id, Event("message", m, m.status))
    /\ active_connections' = PushRegistry(user_id)

\* manager.send_receipt_update(user_id, message_id, updated_status)
send_receipt_update(user_id, m, updated_status) ==
    /\ outbox' = PushOutbox(user_id, Event("receipt", m, updated_status))
    /\ active_connections' = PushRegistry(user_id)

\* ------------------------------------------------------------------- Init
Init ==
    /\ chats = <<>>
    /\ active_connections = [u \in Users |-> NoConn]
    /\ pc = [c \in Conns |-> "new"]
    /\ conn_user = [c \in Conns |-> NoUser]
    /\ alive = [c \in Conns |-> TRUE]
    /\ chat_message = [c \in Conns |-> NoMessage]
    /\ chat_doc = [c \in Conns |-> NoDoc]
    /\ outbox = [c \in Conns |-> <<>>]
    /\ next_oid = 1
    /\ hpc = [r \in Reqs |-> "new"]
    /\ hreq = [r \in Reqs |-> NoReq]
    /\ hchat = [r \in Reqs |-> NoDoc]
    /\ htodo = [r \in Reqs |-> <<>>]
    /\ nsubmits = 0
    /\ nblocks = 0
    /\ started = [c \in Conns |-> NoStart]
    /\ completed = {}
    /\ hmoved = {}
    /\ clock = 0
    /\ appended = [n \in 1..MaxSubmits |-> 0]

\* ------------------------------------------------------ websocket handler
\* connect that keeps an entry the user already has.
connectKeepFirst(c, user_id) ==
    /\ pc[c] = "new"
    /\ \A d \in Conns : d < c => pc[d] # "new"
    /\ pc' = [pc EXCEPT ![c] = "recv"]
    /\ conn_user' = [conn_user EXCEPT ![c] = user_id]
    /\ active_connections' =
           IF active_connections[user_id] = NoConn
           THEN [active_connections EXCEPT ![user_id] = c]
           ELSE active_connections
    /\ UNCHANGED <<chats, alive, chat_message, chat_doc, outbox, next_oid,
                   nsubmits, nblocks, started, completed>>
    /\ UNCHANGED histVars
    /\ UNCHANGED timeVars

\* websocket_endpoint up to the receive loop: the token yields user_id,
\* ConnectionManager.connect accepts and registers the websocket (and sends
\* the recipient list, which changes nothing that is modelled here).
connect(c, user_id) ==
    /\ pc[c] = "new"
    /\ \A d \in Conns : d < c => pc[d] # "new"
    /\ pc' = [pc EXCEPT ![c] = "recv"]
    /\ conn_user' = [conn_user EXCEPT ![c] = user_id]
    /\ active_connections' = [active_connections EXCEPT ![user_id] = c]
    /\ UNCHANGED <<chats, alive, chat_message, chat_doc, outbox, next_oid,
                   nsubmits, nblocks, started, completed>>
    /\ UNCHANGED histVars
    /\ UNCHANGED timeVars

\* The handler goes on to its receive loop without a user: user_id is None.
InvalidTokenAccepted(c) ==
    /\ pc[c] = "new"
    /\ \A d \in Conns : d < c => pc[d] # "new"
    /\ pc' = [pc EXCEPT ![c] = "recv"]
    /\ UNCHANGED <<chats, active_connections, conn_user, alive, chat_message,
                   chat_doc, outbox, next_oid, nsubmits, nblocks, started,
                   completed>>
    /\ UNCHANGED histVars
    /\ UNCHANGED timeVars

\* websocket_endpoint when get_current_user raises HTTPException (the token
\* is malformed, expired, wrongly signed or has no "sub"): user_id is still
\* None, the except HTTPException clause closes the websocket and the
\* handler ends; manager.connect is not called and nothing is received.
InvalidToken(c) ==
    /\ pc[c] = "new"
    /\ \A d \in Conns : d < c => pc[d] # "new"
    /\ pc' = [pc EXCEPT ![c] = "rejected"]
    /\ alive' = [alive EXCEPT ![c] = FALSE]
    /\ UNCHANGED <<chats, active_connections, conn_user, chat_message,
                   chat_doc, outbox, next_oid, nsubmits, nblocks, started,
                   completed>>
    /\ UNCHANGED histVars
    /\ UNCHANGED timeVars

\* websocket_endpoint when manager.connect raises after it has registered the
\* websocket (get_recipients_list or a send_json of the recipient list
\* fails): the except Exception clause closes the websocket and the handler
\* ends; manager.disconnect is not called.
ConnectError(c, user_id) ==
    /\ pc[c] = "new"
    /\ \A d \in Conns : d < c => pc[d] # "new"
    /\ pc' = [pc EXCEPT ![c] = "closed"]
    /\ conn_user' = [conn_user EXCEPT ![c] = user_id]
    /\ active_connections' = [active_connections EXCEPT ![user_id] = c]
    /\ alive' = [alive EXCEPT ![c] = FALSE]
    /\ UNCHANGED <<chats, chat_message, chat_doc, outbox, next_oid,
                   nsubmits, nblocks, started, completed>>
    /\ UNCHANGED histVars
    /\ UNCHANGED timeVars

\* websocket_endpoint when receive_json raises an exception other than
\* WebSocketDisconnect (the frame is not JSON): the except Exception clause
\* closes the websocket and the handler ends; manager.disconnect is not
\* called.
RecvError(c) ==
    /\ pc[c] = "recv"
    /\ alive[c]
    /\ pc' = [pc EXCEPT ![c] = "closed"]
    /\ alive' = [alive EXCEPT ![c] = FALSE]
    /\ UNCHANGED <<chats, active_connections, conn_user, chat_message,
                   chat_doc, outbox, next_oid, nsubmits, nblocks, started,
                   completed>>
    /\ UNCHANGED histVars
    /\ UNCHANGED timeVars

\* The transport of a connection stalls: the client stops reading and sends
\* nothing more, so no push to it completes from now on.
Stall(c) ==
    /\ pc[c] = "recv"
    /\ alive[c]
    /\ pc' = [pc EXCEPT ![c] = "stalled"]
    /\ UNCHANGED <<chats, active_connections, conn_user, alive, chat_message,
                   chat_doc, outbox, next_oid, nsubmits, nblocks, started,
                   completed>>
    /\ UNCHANGED histVars
    /\ UNCHANGED timeVars

\* The transport of an open connection closes (client close or network loss).
Drop(c) ==
    /\ pc[c] \notin {"new", "closed", "crashed"}
    /\ alive[c]
    /\ alive' = [alive EXCEPT ![c] = FALSE]
    /\ UNCHANGED <<chats, active_connections, pc, conn_user, chat_message,
                   chat_doc, outbox, next_oid, nsubmits, nblocks, started,
                   completed>>
    /\ UNCHANGED histVars
    /\ UNCHANGED timeVars

\* The client closes its connection while the handler waits in receive_json.
ClientClose(c) ==
    /\ pc[c] = "recv"
    /\ Drop(c)

\* ConnectionManager.is_connected
is_connected(user_id) == active_connections[user_id] # NoConn

disconnectNoop(user_id) == active_connections

\* ConnectionManager.disconnect, the guarded del: the entry of user_id is
\* deleted when present.
disconnect(user_id) == [active_connections EXCEPT ![user_id] = NoConn]

\* ConnectionManager.disconnect, the second del: KeyError when the registry
\* it is applied to has no entry for user_id.
KeyError(registry, user_id) == registry[user_id] = NoConn

\* receive_json raises WebSocketDisconnect on a closed transport; the handler
\* calls manager.disconnect(user_id) and ends: normally ("closed") when
\* disconnect returns, with the exception that escapes the except clause
\* ("crashed") when it raises.
RecvDisconnect(c) ==
    /\ pc[c] = "recv"
    /\ ~alive[c]
    /\ active_connections' = disconnect(conn_user[c])
    /\ pc' = [pc EXCEPT ![c] =
           IF KeyError(disconnect(conn_user[c]), conn_user[c])
           THEN "crashed" ELSE "closed"]
    /\ UNCHANGED <<chats, conn_user, alive, chat_message, chat_doc, outbox,
                   next_oid, nsubmits, nblocks, started, completed>>
    /\ UNCHANGED histVars
    /\ UNCHANGED timeVars

ErrorEvent(text) ==
    [type |-> "error", n |-> 0, id |-> NoId, sender |-> NoUser,
     status |-> "sent", message |-> text, chat_id |-> NoDoc._id]

NoLive(m) ==
    /\ active_connections[m.sender] = NoConn
    /\ m.receiver \in Users => active_connections[m.receiver] = NoConn

InvalidReceiverOnly(data) == data.receiver = NoUser

\* process_websocket_message: not chat_message.receiver or not
\* chat_message.message (a missing field fails in Message(**data) with a
\* ValueError as well).
Invalid(data) == data.receiver = NoUser \/ data.message = NoBody

\* receive_json returns data; process_websocket_message sets data["sender"],
\* builds the Message and rejects a missing receiver or message with an error
\* on the submitting websocket; otherwise handle_send_chat_message starts
\* with its get_chat lookup.
Receive(c, data) ==
    /\ pc[c] = "recv"
    /\ alive[c]
    /\ nsubmits < MaxSubmits
    /\ nsubmits' = nsubmits + 1
    /\ IF Invalid(data)
       THEN /\ outbox' = [outbox EXCEPT
                  ![c] = Append(@, ErrorEvent("Missing receiver or message"))]
            /\ UNCHANGED <<pc, chat_message, chat_doc, next_oid, started>>
       ELSE LET m == Message(data, conn_user[c], next_oid, nsubmits + 1)
                i == get_chat(m.sender, m.receiver)
            IN /\ chat_message' = [chat_message EXCEPT ![c] = m]
               /\ next_oid' = IF data.id = NoId THEN next_oid + 1 ELSE next_oid
               /\ chat_doc' = [chat_doc EXCEPT ![c] = Snapshot(i)]
               /\ started' = [started EXCEPT
                      ![c] = [nothread |-> (i = 0), nolive |-> NoLive(m),
                              claimed |-> data.sender]]
               /\ pc' = [pc EXCEPT ![c] = IF i # 0 THEN "append" ELSE "insert"]
               /\ UNCHANGED outbox
    /\ UNCHANGED <<chats, active_connections, conn_user, alive, nblocks,
                   completed>>
    /\ UNCHANGED histVars
    /\ UNCHANGED timeVars

\* receive_json returns a JSON value that is not an object (a list, a string,
\* a number): data["sender"] = user_id raises TypeError, which is not a
\* ValueError, and process_websocket_message answers from its except
\* Exception clause.
ReceiveNonObject(c) ==
    /\ pc[c] = "recv"
    /\ alive[c]
    /\ nsubmits < MaxSubmits
    /\ nsubmits' = nsubmits + 1
    /\ outbox' = [outbox EXCEPT
           ![c] = Append(@, ErrorEvent("Failed to send message"))]
    /\ UNCHANGED <<chats, active_connections, conn_user, alive, nblocks,
                   completed>>
    /\ UNCHANGED <<pc, chat_message, chat_doc, next_oid, started>>
    /\ UNCHANGED histVars
    /\ UNCHANGED timeVars

\* datetime.utcnow(): every reading of the clock is later than the one
\* before it.
utcnow == clock + 1

\* chat_doc found: update_one $push of the message, with last_updated read
\* from the clock when the update is issued.
AppendMessage(c) ==
    /\ pc[c] = "append"
    /\ chats' = PushMessage(chat_doc[c]._id, chat_message[c], utcnow)
    /\ clock' = utcnow
    /\ appended' = [appended EXCEPT ![chat_message[c].n] = utcnow]
    /\ pc' = [pc EXCEPT ![c] = "push_sender"]
    /\ UNCHANGED <<active_connections, conn_user, alive, chat_message,
                   chat_doc, outbox, next_oid, nsubmits, nblocks, started,
                   completed>>
    /\ UNCHANGED histVars

\* chat_doc None: insert_one of a new thread holding the message.
InsertChat(c) ==
    /\ pc[c] = "insert"
    /\ chats' = insert_one(ChatMessage(<<chat_message[c]>>,
                    sorted(chat_message[c].sender, chat_message[c].receiver),
                    utcnow))
    /\ clock' = utcnow
    /\ appended' = [appended EXCEPT ![chat_message[c].n] = utcnow]
    /\ pc' = [pc EXCEPT ![c] = "reget"]
    /\ UNCHANGED <<active_connections, conn_user, alive, chat_message,
                   chat_doc, outbox, next_oid, nsubmits, nblocks, started,
                   completed>>
    /\ UNCHANGED histVars

\* chat_doc = await get_chat(sender, receiver) after the insert.
ReGet(c) ==
    /\ pc[c] = "reget"
    /\ chat_doc' = [chat_doc EXCEPT ![c] =
           Snapshot(get_chat(chat_message[c].sender, chat_message[c].receiver))]
    /\ pc' = [pc EXCEPT ![c] = "push_sender"]
    /\ UNCHANGED <<chats, active_connections, conn_user, alive, chat_message,
                   outbox, next_oid, nsubmits, nblocks, started, completed>>
    /\ UNCHANGED histVars
    /\ UNCHANGED timeVars

PushSender(c) ==
    /\ pc[c] = "push_sender"
    /\ send_personal_message(chat_message[c], chat_message[c].sender)
    /\ pc' = [pc EXCEPT ![c] = "push_receiver"]
    /\ UNCHANGED <<chats, conn_user, alive, chat_message, chat_doc, next_oid,
                   nsubmits, nblocks, started, completed>>
    /\ UNCHANGED histVars
    /\ UNCHANGED timeVars

\* The push to the receiver left out.
PushReceiverSkip(c) ==
    /\ pc[c] = "push_receiver"
    /\ pc' = [pc EXCEPT ![c] = "set_delivered"]
    /\ UNCHANGED <<chats, active_connections, conn_user, alive, chat_message,
                   chat_doc, outbox, next_oid, nsubmits, nblocks, started,
                   completed>>
    /\ UNCHANGED histVars
    /\ UNCHANGED timeVars

\* The push to the receiver with a transport error that is raised: the
\* except clause of handle_send_chat_message turns it into a failed submit.
PushReceiverRaise(c) ==
    /\ pc[c] = "push_receiver"
    /\ IF /\ active_connections[chat_message[c].receiver] # NoConn
          /\ ~alive[active_connections[chat_message[c].receiver]]
       THEN /\ outbox' = [outbox EXCEPT
                  ![c] = Append(@, ErrorEvent("Failed to send message"))]
            /\ pc' = [pc EXCEPT ![c] = "recv"]
            /\ chat_message' = [chat_message EXCEPT ![c] = NoMessage]
            /\ chat_doc' = [chat_doc EXCEPT ![c] = NoDoc]
            /\ started' = [started EXCEPT ![c] = NoStart]
            /\ UNCHANGED active_connections
       ELSE /\ send_personal_message(chat_message[c], chat_message[c].receiver)
            /\ pc' = [pc EXCEPT ![c] = "set_delivered"]
            /\ UNCHANGED <<chat_message, chat_doc, started>>
    /\ UNCHANGED <<chats, conn_user, alive, next_oid, nsubmits, nblocks,
                   completed>>
    /\ UNCHANGED histVars
    /\ UNCHANGED timeVars

\* The push to the receiver awaited until the receiver's transport has
\* taken the event.
PushReceiverBlock(c) ==
    /\ pc[c] = "push_receiver"
    /\ IF active_connections[chat_message[c].receiver] = NoConn
       THEN TRUE
       ELSE pc[active_connections[chat_message[c].receiver]] # "stalled"
    /\ send_personal_message(chat_message[c], chat_message[c].receiver)
    /\ pc' = [pc EXCEPT ![c] = "set_delivered"]
    /\ UNCHANGED <<chats, conn_user, alive, chat_message, chat_doc, next_oid,
                   nsubmits, nblocks, started, completed>>
    /\ UNCHANGED histVars
    /\ UNCHANGED timeVars

PushReceiver(c) ==
    /\ pc[c] = "push_receiver"
    /\ send_personal_message(chat_message[c], chat_message[c].receiver)
    /\ pc' = [pc EXCEPT ![c] = "set_delivered"]
    /\ UNCHANGED <<chats, conn_user, alive, chat_message, chat_doc, next_oid,
                   nsubmits, nblocks, started, completed>>
    /\ UNCHANGED histVars
    /\ UNCHANGED timeVars

\* update_one({"_id": chat_doc["_id"], "messages.id": chat_message.id}, ...)
SetDelivered(c) ==
    /\ pc[c] = "set_delivered"
    /\ chats' = SetStatus(chat_doc[c]._id, chat_message[c].id, "delivered")
    /\ pc' = [pc EXCEPT ![c] = "receipt_sender"]
    /\ UNCHANGED <<active_connections, conn_user, alive, chat_message,
                   chat_doc, outbox, next_oid, nsubmits, nblocks, started,
                   completed>>
    /\ UNCHANGED histVars
    /\ UNCHANGED timeVars

ReceiptSender(c) ==
    /\ pc[c] = "receipt_sender"
    /\ send_receipt_update(chat_message[c].sender, chat_message[c], "delivered")
    /\ pc' = [pc EXCEPT ![c] = "receipt_receiver"]
    /\ UNCHANGED <<chats, conn_user, alive, chat_message, chat_doc, next_oid,
                   nsubmits, nblocks, started, completed>>
    /\ UNCHANGED histVars
    /\ UNCHANGED timeVars

\* The receipt push to the receiver that takes the delivered status back
\* when the receiver's connection is closed.
ReceiptReceiverRollback(c) ==
    /\ pc[c] = "receipt_receiver"
    /\ send_receipt_update(chat_message[c].receiver, chat_message[c],
                           "delivered")
    /\ chats' =
           IF /\ active_connections[chat_message[c].receiver] # NoConn
              /\ ~alive[active_connections[chat_message[c].receiver]]
           THEN SetStatus(chat_doc[c]._id, chat_message[c].id, "sent")
           ELSE chats
    /\ pc' = [pc EXCEPT ![c] = "recv"]
    /\ completed' = completed \cup
           {[n |-> chat_message[c].n, sender |-> chat_message[c].sender,
             receiver |-> chat_message[c].receiver,
             nothread |-> started[c].nothread, nolive |-> started[c].nolive]}
    /\ chat_message' = [chat_message EXCEPT ![c] = NoMessage]
    /\ chat_doc' = [chat_doc EXCEPT ![c] = NoDoc]
    /\ started' = [started EXCEPT ![c] = NoStart]
    /\ UNCHANGED <<conn_user, alive, next_oid, nsubmits, nblocks>>
    /\ UNCHANGED histVars
    /\ UNCHANGED timeVars

\* The last await of handle_send_chat_message; the handler returns to its
\* receive loop.
ReceiptReceiver(c) ==
    /\ pc[c] = "receipt_receiver"
    /\ send_receipt_update(chat_message[c].receiver, chat_message[c],
                           "delivered")
    /\ pc' = [pc EXCEPT ![c] = "recv"]
    /\ completed' = completed \cup
           {[n |-> chat_message[c].n, sender |-> chat_message[c].sender,
             receiver |-> chat_message[c].receiver,
             nothread |-> started[c].nothread, nolive |-> started[c].nolive]}
    /\ chat_message' = [chat_message EXCEPT ![c] = NoMessage]
    /\ chat_doc' = [chat_doc EXCEPT ![c] = NoDoc]
    /\ started' = [started EXCEPT ![c] = NoStart]
    /\ UNCHANGED <<chats, conn_user, alive, next_oid, nsubmits, nblocks>>
    /\ UNCHANGED histVars
    /\ UNCHANGED timeVars

\* ---------------------------------------------------------- store failures
\* The failed submit answered with the error and the end of the handler,
\* which closes the websocket and removes its user's entry.
SubmitFailsEnds(c) ==
    /\ outbox' = [outbox EXCEPT
           ![c] = Append(@, ErrorEvent("Failed to send message"))]
    /\ pc' = [pc EXCEPT ![c] = "closed"]
    /\ alive' = [alive EXCEPT ![c] = FALSE]
    /\ active_connections' = disconnect(conn_user[c])
    /\ chat_message' = [chat_message EXCEPT ![c] = NoMessage]
    /\ chat_doc' = [chat_doc EXCEPT ![c] = NoDoc]
    /\ started' = [started EXCEPT ![c] = NoStart]
    /\ UNCHANGED <<chats, conn_user, next_oid, nsubmits, nblocks, completed>>
    /\ UNCHANGED histVars
    /\ UNCHANGED timeVars

\* An awaited store operation of handle_send_chat_message raises: the except
\* clause raises DatabaseOperationError, process_websocket_message answers
\* on the submitting websocket with "Failed to send message" and the handler
\* returns to its receive loop. A store operation that raises has changed
\* nothing in the store.
SubmitFails(c) ==
    /\ outbox' = [outbox EXCEPT
           ![c] = Append(@, ErrorEvent("Failed to send message"))]
    /\ pc' = [pc EXCEPT ![c] = "recv"]
    /\ chat_message' = [chat_message EXCEPT ![c] = NoMessage]
    /\ chat_doc' = [chat_doc EXCEPT ![c] = NoDoc]
    /\ started' = [started EXCEPT ![c] = NoStart]
    /\ UNCHANGED <<chats, active_connections, conn_user, alive, next_oid,
                   nsubmits, nblocks, completed>>
    /\ UNCHANGED histVars
    /\ UNCHANGED timeVars

\* The failed write answered with nothing.
WriteFailSilent(c) ==
    /\ pc[c] \in {"append", "insert"}
    /\ pc' = [pc EXCEPT ![c] = "recv"]
    /\ chat_message' = [chat_message EXCEPT ![c] = NoMessage]
    /\ chat_doc' = [chat_doc EXCEPT ![c] = NoDoc]
    /\ started' = [started EXCEPT ![c] = NoStart]
    /\ UNCHANGED <<chats, active_connections, conn_user, alive, outbox,
                   next_oid, nsubmits, nblocks, completed>>
    /\ UNCHANGED histVars
    /\ UNCHANGED timeVars

\* The update_one $push, or the insert_one of the new thread, raises.
WriteFail(c) ==
    /\ pc[c] \in {"append", "insert"}
    /\ SubmitFails(c)

\* The get_chat after the insert raises.
ReGetFail(c) ==
    /\ pc[c] = "reget"
    /\ SubmitFails(c)

\* The update_one that sets the status to delivered raises.
SetDeliveredFail(c) ==
    /\ pc[c] = "set_delivered"
    /\ SubmitFails(c)

\* ------------------------------------------------------- recipient list
\* get_recipients_list: find({"users": user_id}), the threads user_id takes
\* part in.
ChatsOf(user_id) ==
    {i \in DOMAIN chats : user_id \in {chats[i].users[1], chats[i].users[2]}}

\* The two messages of create_initial_chat; each gets a fresh ObjectId, and
\* neither is the message of a submit (n is 0).
InitialMessages(user_id, oid) ==
    <<[n |-> 0, id |-> <<"oid", oid>>, sender |-> skillarena,
       receiver |-> user_id, status |-> "sent",
       message |-> "Welcome to Skillarena!"],
      [n |-> 0, id |-> <<"oid", oid + 1>>, sender |-> skillarena,
       receiver |-> user_id, status |-> "sent",
       message |-> "Follow the video below to understand how chat works."]>>

\* websocket_endpoint with a valid token, up to the first await of
\* get_recipients_list: ConnectionManager.connect accepts and registers the
\* websocket, and the find for the user's threads returns.
ConnectLookup(c, user_id) ==
    /\ pc[c] = "new"
    /\ \A d \in Conns : d < c => pc[d] # "new"
    /\ conn_user' = [conn_user EXCEPT ![c] = user_id]
    /\ active_connections' = [active_connections EXCEPT ![user_id] = c]
    /\ pc' = [pc EXCEPT ![c] =
           IF ChatsOf(user_id) = {} THEN "initial" ELSE "recipients"]
    /\ chat_doc' = [chat_doc EXCEPT ![c] =
           IF ChatsOf(user_id) = {} THEN NoDoc
           ELSE Snapshot(Min(ChatsOf(user_id)))]
    /\ UNCHANGED <<chats, alive, chat_message, outbox, next_oid, nsubmits,
                   nblocks, started, completed>>
    /\ UNCHANGED histVars
    /\ UNCHANGED timeVars

\* create_initial_chat: insert_one of the thread of the user and the system
\* identity, holding the two welcome messages.
create_initial_chat(c) ==
    /\ pc[c] = "initial"
    /\ chats' = insert_one(ChatMessage(InitialMessages(conn_user[c], next_oid),
                    sorted(conn_user[c], skillarena), utcnow))
    /\ next_oid' = next_oid + 2
    /\ clock' = utcnow
    /\ pc' = [pc EXCEPT ![c] = "initial_get"]
    /\ UNCHANGED <<active_connections, conn_user, alive, chat_message,
                   chat_doc, outbox, nsubmits, nblocks, started, completed,
                   appended>>
    /\ UNCHANGED histVars

\* create_initial_chat: chat = await get_chat(user_id, "skillarena"), the
\* one element of the recipient list.
InitialGet(c) ==
    /\ pc[c] = "initial_get"
    /\ chat_doc' = [chat_doc EXCEPT ![c] =
           Snapshot(get_chat(conn_user[c], skillarena))]
    /\ pc' = [pc EXCEPT ![c] = "recipients"]
    /\ UNCHANGED <<chats, active_connections, conn_user, alive, chat_message,
                   outbox, next_oid, nsubmits, nblocks, started, completed>>
    /\ UNCHANGED histVars
    /\ UNCHANGED timeVars

\* ConnectionManager.connect builds the first recipient_list event: it reads
\* recipient["avatar"], a key that neither ChatMessage nor
\* get_recipients_list gives to a thread this program has written, so the
\* KeyError ends the handler in the except Exception clause of
\* websocket_endpoint: the websocket is closed, manager.disconnect is not
\* called.
RecipientListError(c) ==
    /\ pc[c] = "recipients"
    /\ pc' = [pc EXCEPT ![c] = "closed"]
    /\ alive' = [alive EXCEPT ![c] = FALSE]
    /\ chat_doc' = [chat_doc EXCEPT ![c] = NoDoc]
    /\ UNCHANGED <<chats, active_connections, conn_user, chat_message,
                   outbox, next_oid, nsubmits, nblocks, started, completed>>
    /\ UNCHANGED histVars
    /\ UNCHANGED timeVars

\* ---------------------------------------------------- chat-history request
\* Positions of the messages of a looked-up chat that mark_messages_as_read
\* selects: status "delivered" and receiver the current user.
RECURSIVE SelectFrom(_, _, _)
SelectFrom(messages, current_user_id, j) ==
    IF j > Len(messages) THEN <<>>
    ELSE IF messages[j].status = "delivered"
            /\ messages[j].receiver = current_user_id
         THEN <<j>> \o SelectFrom(messages, current_user_id, j + 1)
         ELSE SelectFrom(messages, current_user_id, j + 1)

to_update_delivered_messages(chat, current_user_id) ==
    SelectFrom(chat.messages, current_user_id, 1)

\* get_chat_history: the first get_chat, and for a found chat the selection
\* mark_messages_as_read makes before its first update.
OpenHistory(r, current_user, other_user_id) ==
    /\ hpc[r] = "new"
    /\ hreq' = [hreq EXCEPT ![r] = [current_user |-> current_user,
                                    other_user_id |-> other_user_id]]
    /\ LET i == get_chat(current_user, other_user_id)
       IN IF i = 0
          THEN /\ hpc' = [hpc EXCEPT ![r] = "create"]
               /\ UNCHANGED <<hchat, htodo>>
          ELSE /\ hpc' = [hpc EXCEPT ![r] = "mark"]
               /\ hchat' = [hchat EXCEPT ![r] = Snapshot(i)]
               /\ htodo' = [htodo EXCEPT ![r] =
                      to_update_delivered_messages(Snapshot(i), current_user)]
    /\ UNCHANGED <<chats, active_connections, outbox, next_oid, nsubmits,
                   nblocks, completed, hmoved>>
    /\ UNCHANGED connVars
    /\ UNCHANGED timeVars

\* create_empty_chat: insert_one of a thread without messages.
create_empty_chat(r) ==
    /\ hpc[r] = "create"
    /\ chats' = insert_one(ChatMessage(<<>>,
                    sorted(hreq[r].current_user, hreq[r].other_user_id),
                    utcnow))
    /\ clock' = utcnow
    /\ UNCHANGED appended
    /\ hpc' = [hpc EXCEPT ![r] = "final"]
    /\ UNCHANGED <<active_connections, outbox, next_oid, nsubmits, nblocks,
                   completed, hreq, hchat, htodo, hmoved>>
    /\ UNCHANGED connVars

\* The sender's live connection, when a status update changes a message.
LiveConn(user_id) ==
    IF user_id \in Users /\ active_connections[user_id] # NoConn
           /\ alive[active_connections[user_id]]
    THEN active_connections[user_id]
    ELSE NoConn

Moved(r, i, mid) ==
    LET k == IF i \in DOMAIN chats THEN FirstWithId(chats[i].messages, mid)
             ELSE 0
    IN IF k # 0 /\ chats[i].messages[k].status # "read"
          /\ LiveConn(chats[i].messages[k].sender) # NoConn
       THEN {[r |-> r, id |-> mid,
              sender |-> chats[i].messages[k].sender,
              receiver |-> chats[i].messages[k].receiver,
              conn |-> LiveConn(chats[i].messages[k].sender)]}
       ELSE {}

\* One iteration of the loop of mark_messages_as_read: update_one sets
\* messages.$.status to "read" for the next selected message id.
mark_messages_as_read(r) ==
    /\ hpc[r] = "mark"
    /\ htodo[r] # <<>>
    /\ LET mid == hchat[r].messages[Head(htodo[r])].id
       IN /\ chats' = SetStatus(hchat[r]._id, mid, "read")
          /\ hmoved' = hmoved \cup Moved(r, hchat[r]._id, mid)
    /\ htodo' = [htodo EXCEPT ![r] = Tail(@)]
    /\ UNCHANGED <<active_connections, outbox, next_oid, nsubmits, nblocks,
                   completed, hpc, hreq, hchat>>
    /\ UNCHANGED connVars
    /\ UNCHANGED timeVars

\* The failed update taken as done: the request goes on to return a history.
MarkFailIgnored(r) ==
    /\ hpc[r] = "mark"
    /\ htodo[r] # <<>>
    /\ hpc' = [hpc EXCEPT ![r] = "done"]
    /\ hreq' = [hreq EXCEPT ![r] = NoReq]
    /\ hchat' = [hchat EXCEPT ![r] = NoDoc]
    /\ htodo' = [htodo EXCEPT ![r] = <<>>]
    /\ UNCHANGED <<chats, active_connections, outbox, next_oid, nsubmits,
                   nblocks, completed, hmoved>>
    /\ UNCHANGED connVars
    /\ UNCHANGED timeVars

\* An update_one of mark_messages_as_read raises: DatabaseOperationError,
\* which get_chat_history turns into an HTTP 500 response instead of a
\* history.
MarkFail(r) ==
    /\ hpc[r] = "mark"
    /\ htodo[r] # <<>>
    /\ hpc' = [hpc EXCEPT ![r] = "error"]
    /\ hreq' = [hreq EXCEPT ![r] = NoReq]
    /\ hchat' = [hchat EXCEPT ![r] = NoDoc]
    /\ htodo' = [htodo EXCEPT ![r] = <<>>]
    /\ UNCHANGED <<chats, active_connections, outbox, next_oid, nsubmits,
                   nblocks, completed, hmoved>>
    /\ UNCHANGED connVars
    /\ UNCHANGED timeVars

\* updated_chat = await get_chat(...); what get_chat_history returns: the
\* messages of the chat found now, [] when there is none.
updated_messages(r) ==
    Snapshot(get_chat(hreq[r].current_user, hreq[r].other_user_id)).messages

\* The last await of get_chat_history; the request's locals go out of scope.
ReturnHistory(r) ==
    /\ \/ hpc[r] = "final"
       \/ hpc[r] = "mark" /\ htodo[r] = <<>>
    /\ hpc' = [hpc EXCEPT ![r] = "done"]
    /\ hreq' = [hreq EXCEPT ![r] = NoReq]
    /\ hchat' = [hchat EXCEPT ![r] = NoDoc]
    /\ UNCHANGED <<chats, active_connections, outbox, next_oid, nsubmits,
                   nblocks, completed, htodo, hmoved>>
    /\ UNCHANGED connVars
    /\ UNCHANGED timeVars

\* ------------------------------------------------------------- block_user
\* block_user(user_id, blocked_user_id) on an existing chat: the lookup and
\* the update by _id (threads are never deleted, so the update finds it).
block_user(user_id, blocked_user_id) ==
    /\ nblocks < MaxBlocks
    /\ get_chat(user_id, blocked_user_id) # 0
    /\ chats' = [chats EXCEPT
           ![get_chat(user_id, blocked_user_id)].is_blocked = TRUE,
           ![get_chat(user_id, blocked_user_id)].blocked_by = user_id]
    /\ nblocks' = nblocks + 1
    /\ UNCHANGED <<active_connections, outbox, next_oid, nsubmits, completed>>
    /\ UNCHANGED connVars
    /\ UNCHANGED histVars
    /\ UNCHANGED timeVars

\* ------------------------------------------------------------------- Next
\* The steps of handle_send_chat_message after the lookup.
SubmitStep(c) ==
    \/ AppendMessage(c)
    \/ InsertChat(c)
    \/ ReGet(c)
    \/ PushSender(c)
    \/ PushReceiver(c)
    \/ SetDelivered(c)
    \/ ReceiptSender(c)
    \/ ReceiptReceiver(c)

HistoryStep(r) ==
    \/ \E u \in Users, o \in Users : OpenHistory(r, u, o)
    \/ create_empty_chat(r)
    \/ mark_messages_as_read(r)
    \/ ReturnHistory(r)

\* Clients that send only receiver and message, over connections that stay
\* open.
NextSubmit ==
    \/ \E c \in Conns, u \in Users : connect(c, u)
    \/ \E c \in Conns, data \in PlainPayloads : Receive(c, data)
    \/ \E c \in Conns : SubmitStep(c)

SpecSubmit == Init /\ [][NextSubmit]_vars

\* Clients that may also supply "_id" and status.
NextClient ==
    \/ \E c \in Conns, u \in Users : connect(c, u)
    \/ \E c \in Conns, data \in StatusPayloads : Receive(c, data)
    \/ \E c \in Conns : SubmitStep(c)

SpecClient == Init /\ [][NextClient]_vars

\* Clients that may name a sender in their payloads.
NextSender ==
    \/ \E c \in Conns, u \in Users : connect(c, u)
    \/ \E c \in Conns, data \in SenderPayloads : Receive(c, data)
    \/ \E c \in Conns : SubmitStep(c)

SpecSender == Init /\ [][NextSender]_vars

\* Clients may close their connection between two payloads.
NextClose ==
    \/ NextSubmit
    \/ \E c \in Conns : ClientClose(c)
    \/ \E c \in Conns : RecvDisconnect(c)

SpecClose == Init /\ [][NextClose]_vars

\* Connections may also end by an error in their handler.
NextError ==
    \/ NextClose
    \/ \E c \in Conns, u \in Users : ConnectError(c, u)
    \/ \E c \in Conns : RecvError(c)

SpecError == Init /\ [][NextError]_vars

\* Websockets may be opened with a token that fails validation.
NextToken ==
    \/ NextSubmit
    \/ \E c \in Conns : InvalidToken(c)

SpecToken == Init /\ [][NextToken]_vars

\* Submits whose store operations may fail.
NextFail ==
    \/ NextSubmit
    \/ \E c \in Conns : WriteFail(c)
    \/ \E c \in Conns : ReGetFail(c)
    \/ \E c \in Conns : SetDeliveredFail(c)

SpecFail == Init /\ [][NextFail]_vars

\* Submits whose store operations may fail, from clients that may send any
\* JSON value.
NextReject ==
    \/ NextFail
    \/ \E c \in Conns : ReceiveNonObject(c)

SpecReject == Init /\ [][NextReject]_vars

\* Submits together with block_user requests.
NextBlock ==
    \/ NextSubmit
    \/ \E u \in Users, o \in Users : block_user(u, o)

SpecBlock == Init /\ [][NextBlock]_vars

\* Submits together with chat-history requests.
NextHistory ==
    \/ NextSubmit
    \/ \E r \in Reqs : HistoryStep(r)

SpecHistory == Init /\ [][NextHistory]_vars

\* Chat-history requests with clients that may choose the message id.
NextHistoryIds ==
    \/ \E c \in Conns, u \in Users : connect(c, u)
    \/ \E c \in Conns, data \in IdPayloads : Receive(c, data)
    \/ \E c \in Conns : SubmitStep(c)
    \/ \E r \in Reqs : HistoryStep(r)

SpecHistoryIds == Init /\ [][NextHistoryIds]_vars

\* No submit and no chat-history request is in progress.
Quiet ==
    /\ \A c \in Conns :
           pc[c] \in {"new", "recv", "stalled", "closed", "crashed",
                      "rejected"}
    /\ \A r \in Reqs : hpc[r] \in {"new", "done", "error"}

\* Submits and chat-history requests made one after the other: each starts
\* when the one before it has returned.
ReceiveWhenQuiet(c, data) == Quiet /\ Receive(c, data)

OpenHistoryWhenQuiet(r, u, o) == Quiet /\ OpenHistory(r, u, o)

NextSequential ==
    \/ \E c \in Conns, u \in Users : connect(c, u)
    \/ \E c \in Conns, data \in PlainPayloads : ReceiveWhenQuiet(c, data)
    \/ \E c \in Conns : SubmitStep(c)
    \/ \E r \in Reqs, u \in Users, o \in Users :
           OpenHistoryWhenQuiet(r, u, o)
    \/ \E r \in Reqs : create_empty_chat(r)
    \/ \E r \in Reqs : mark_messages_as_read(r)
    \/ \E r \in Reqs : ReturnHistory(r)

SpecSequential == Init /\ [][NextSequential]_vars

BlockWhenQuiet(u, o) == Quiet /\ block_user(u, o)

\* Every operation on the store: submits, chat-history requests and
\* block_user requests made one after the other.
NextStore ==
    \/ NextSequential
    \/ \E u \in Users, o \in Users : BlockWhenQuiet(u, o)

SpecStore == Init /\ [][NextStore]_vars

\* Submits and chat-history requests made one after the other, between the
\* users and identities that are never connected: the store holds threads
\* of several pairs.
NextFrame ==
    \/ \E c \in Conns, u \in Users : connect(c, u)
    \/ \E c \in Conns, data \in WidePayloads : ReceiveWhenQuiet(c, data)
    \/ \E c \in Conns : SubmitStep(c)
    \/ \E r \in Reqs, u \in Users, o \in Users \cup Others :
           OpenHistoryWhenQuiet(r, u, o)
    \/ \E r \in Reqs : create_empty_chat(r)
    \/ \E r \in Reqs : mark_messages_as_read(r)
    \/ \E r \in Reqs : ReturnHistory(r)

SpecFrame == Init /\ [][NextFrame]_vars

\* Submits and chat-history requests made one after the other, whose
\* status updates may fail.
NextFailHistory ==
    \/ NextSequential
    \/ \E c \in Conns : SetDeliveredFail(c)
    \/ \E r \in Reqs : MarkFail(r)

SpecFailHistory == Init /\ [][NextFailHistory]_vars

\* Sequential submits with transports that may stall; the asyncio loop runs
\* every handler that can take a step.
NextStall ==
    \/ \E c \in Conns, u \in Users : connect(c, u)
    \/ \E c \in Conns, data \in PlainPayloads : ReceiveWhenQuiet(c, data)
    \/ \E c \in Conns : SubmitStep(c)
    \/ \E c \in Conns : Stall(c)

SpecStall ==
    Init /\ [][NextStall]_vars /\ \A c \in Conns : WF_vars(SubmitStep(c))

\* Websockets opened in a store that holds only what this program writes:
\* the token check, the steps of ConnectionManager.connect and of the
\* recipient list.
NextWelcome ==
    \/ \E c \in Conns : InvalidToken(c)
    \/ \E c \in Conns, u \in Users : ConnectLookup(c, u)
    \/ \E c \in Conns : create_initial_chat(c)
    \/ \E c \in Conns : InitialGet(c)
    \/ \E c \in Conns : RecipientListError(c)

SpecWelcome == Init /\ [][NextWelcome]_vars

\* The whole system; a transport may fail at any moment.
Next ==
    \/ \E c \in Conns, u \in Users : connect(c, u)
    \/ \E c \in Conns, data \in Payloads : Receive(c, data)
    \/ \E c \in Conns : SubmitStep(c)
    \/ \E c \in Conns : Drop(c)
    \/ \E c \in Conns : RecvDisconnect(c)
    \/ \E r \in Reqs : HistoryStep(r)
    \/ \E u \in Users, o \in Users : block_user(u, o)

Spec == Init /\ [][Next]_vars

\* ============================================================== properties
\* The stored messages of all threads, as <<thread, position>> pairs.
Stored == {ij \in (DOMAIN chats) \X (1..MaxSubmits) :
              ij[2] \in DOMAIN chats[ij[1]].messages}

StatusRank(status) ==
    CASE status = "sent" -> 1
      [] status = "delivered" -> 2
      [] status = "read" -> 3

\* The stored messages between two different users: the properties below
\* are stated for these, so that none rests on a message a user sent to
\* itself.
StoredPair == {ij \in Stored :
                  chats[ij[1]].messages[ij[2]].sender
                      # chats[ij[1]].messages[ij[2]].receiver}

\* Submits n of the thread i.
SerialsOf(i) == {chats[i].messages[j].n : j \in DOMAIN chats[i].messages}

\* C1: two submits in opposite directions between A and B that both found
\* no thread for the pair leave, once both have completed, exactly one thread
\* for the pair, and it holds both messages.
C1_ConcurrentFirstContact ==
    \A x \in completed, y \in completed :
        (/\ x.nothread /\ y.nothread
         /\ x.sender # x.receiver
         /\ y.sender = x.receiver /\ y.receiver = x.sender)
        => /\ Cardinality(Matching(sorted(x.sender, x.receiver))) = 1
           /\ \A i \in Matching(sorted(x.sender, x.receiver)) :
                  {x.n, y.n} \subseteq SerialsOf(i)

\* C2: in every reachable state at most one thread document exists per
\* pair of two different participants.
C2_OneThreadPerPair ==
    \A i \in DOMAIN chats, j \in DOMAIN chats :
        (chats[i].users = chats[j].users
             /\ chats[i].users[1] # chats[i].users[2])
        => i = j

\* C3: no step moves the status of a stored message backwards in
\* sent -> delivered -> read.
C3_StatusMonotonic ==
    [][\A ij \in StoredPair :
          StatusRank(chats'[ij[1]].messages[ij[2]].status)
              >= StatusRank(chats[ij[1]].messages[ij[2]].status)]_vars

\* C4: a message has status sent in the state in which a submit has just
\* appended it, whatever the payload carried.
C4_AppendedAsSent ==
    [][\A i \in DOMAIN chats' : \A j \in DOMAIN chats'[i].messages :
          (/\ i \notin DOMAIN chats \/ j \notin DOMAIN chats[i].messages
           /\ chats'[i].messages[j].sender # chats'[i].messages[j].receiver)
          => chats'[i].messages[j].status = "sent"]_vars

\* C5: once a submit that appended its message has returned, the persisted
\* status of that message is delivered (or already read).
C5_DeliveredAfterAppend ==
    \A x \in completed : \A ij \in StoredPair :
        chats[ij[1]].messages[ij[2]].n = x.n
            => chats[ij[1]].messages[ij[2]].status \in {"delivered", "read"}

\* C6: a submit whose thread lookup returned a blocked thread appends
\* nothing, changes nothing else in the store and pushes nothing to another
\* connection.
C6_BlockedSubmitRejected ==
    [][\A c \in Conns :
          (/\ chat_doc[c].is_blocked /\ pc'[c] # pc[c]
           /\ chat_message[c].sender # chat_message[c].receiver)
              => /\ chats' = chats
                 /\ \A d \in Conns \ {c} : outbox'[d] = outbox[d]]_vars

\* C7: when the history open of reader B returns, every message of the
\* looked-up thread that was delivered and addressed to B is read; and an
\* update of the history open leaves the status of every message addressed
\* to the other participant as it was.
C7_HistoryMarksRead ==
    [][\A r \in Reqs :
          /\ (/\ hpc[r] = "mark" /\ hpc'[r] = "done"
              /\ hreq[r].current_user # hreq[r].other_user_id)
                 => \A j \in DOMAIN hchat[r].messages :
                        (/\ hchat[r].messages[j].receiver = hreq[r].current_user
                         /\ hchat[r].messages[j].status = "delivered")
                        => chats'[hchat[r]._id].messages[j].status = "read"
          /\ (/\ hpc[r] = "mark" /\ htodo'[r] # htodo[r]
              /\ hreq[r].current_user # hreq[r].other_user_id)
                 => \A ij \in StoredPair :
                        chats[ij[1]].messages[ij[2]].receiver
                            # hreq[r].current_user
                        => chats'[ij[1]].messages[ij[2]].status
                               = chats[ij[1]].messages[ij[2]].status]_vars

HasReceipt(c, mid, status) ==
    \E k \in DOMAIN outbox[c] :
        /\ outbox[c][k].type = "receipt"
        /\ outbox[c][k].id = mid
        /\ outbox[c][k].status = status

\* C8: when a history open has returned, every message it moved to read
\* whose sender had a live connection at that moment has a receipt-update
\* with status read in that connection's events.
C8_ReadReceiptPushed ==
    \A x \in hmoved :
        (hpc[x.r] = "done" /\ x.sender # x.receiver)
        => HasReceipt(x.conn, x.id, "read")

\* Position of submit n in thread i, 0 when it is not there.
PositionOf(i, n) ==
    LET js == {j \in DOMAIN chats[i].messages : chats[i].messages[j].n = n}
    IN IF js = {} THEN 0 ELSE Min(js)

\* C9: take a connection whose user has no other connection, and two
\* message events it has been sent for messages of one thread of which its
\* user is a receiver: the events are in the order of the thread's message
\* sequence, and each carries the persisted body.
C9_PushesInAppendOrder ==
    \A c \in Conns : \A k1 \in DOMAIN outbox[c], k2 \in DOMAIN outbox[c] :
        (/\ k1 < k2
         /\ outbox[c][k1].type = "message"
         /\ outbox[c][k2].type = "message"
         /\ \A d \in Conns \ {c} : conn_user[d] # conn_user[c])
        => \A i \in DOMAIN chats :
               LET j1 == PositionOf(i, outbox[c][k1].n)
                   j2 == PositionOf(i, outbox[c][k2].n)
               IN (/\ chats[i].users[1] # chats[i].users[2]
                   /\ j1 # 0 /\ j2 # 0
                   /\ conn_user[c] \in {chats[i].messages[j1].receiver,
                                        chats[i].messages[j2].receiver})
                  => /\ j1 < j2
                     /\ chats[i].messages[j1].message = outbox[c][k1].message
                     /\ chats[i].messages[j2].message = outbox[c][k2].message

\* C10: the first submit, from A to B, made when no thread exists and
\* neither A nor B is registered, returns with exactly one thread, for the
\* pair {A, B}, holding exactly that message with status delivered.
C10_FirstSubmitOffline ==
    \A x \in completed :
        (x.nothread /\ x.nolive /\ nsubmits = 1)
        => /\ Len(chats) = 1
           /\ chats[1].users = sorted(x.sender, x.receiver)
           /\ Len(chats[1].messages) = 1
           /\ chats[1].messages[1].n = x.n
           /\ chats[1].messages[1].message \in Bodies
           /\ chats[1].messages[1].status = "delivered"

\* C10 witness: such a submit between two different users has returned.
C10_Witness ==
    \E x \in completed :
        /\ x.nothread /\ x.nolive /\ nsubmits = 1
        /\ x.sender # x.receiver

\* The thread that stores submit n, 0 when none does.
ThreadOf(n) ==
    LET ids == {i \in DOMAIN chats : n \in SerialsOf(i)}
    IN IF ids = {} THEN 0 ELSE Min(ids)

\* The threads whose participants are the users of the set S.
ThreadsOf(S) ==
    {i \in DOMAIN chats : {chats[i].users[1], chats[i].users[2]} = S}

\* C11: with sequential lookups and submits, all submits between two
\* different users A and B, in either direction, are stored in one and the
\* same thread, which is the only thread of the pair (so the thread a submit
\* A -> B created is the one a later submit B -> A found), and a history
\* lookup in either order holds that thread too.
C11_ResolutionOrderIndependent ==
    /\ \A x \in completed, y \in completed :
           (/\ x.sender # x.receiver
            /\ {x.sender, x.receiver} = {y.sender, y.receiver})
           => /\ ThreadOf(x.n) # 0
              /\ ThreadOf(x.n) = ThreadOf(y.n)
              /\ ThreadsOf({x.sender, x.receiver}) = {ThreadOf(x.n)}
    /\ \A r \in Reqs : \A x \in completed :
           (/\ hpc[r] = "mark"
            /\ x.sender # x.receiver
            /\ {hreq[r].current_user, hreq[r].other_user_id}
                   = {x.sender, x.receiver})
           => hchat[r]._id = ThreadOf(x.n)

\* C11 witness: a submit A -> B that created the thread and a later submit
\* B -> A have both returned.
C11_Witness ==
    \E x \in completed, y \in completed :
        /\ x.nothread /\ ~y.nothread /\ x.n < y.n
        /\ x.sender # x.receiver
        /\ y.sender = x.receiver /\ y.receiver = x.sender

\* C12: the entry of a user is a connection of that user, and the step in
\* which connect(c, user) registers leaves c as the user's entry, whatever
\* entry the user had before.
C12_ConnectReplacesEntry ==
    /\ [](\A u \in Users :
             active_connections[u] # NoConn
                 => conn_user[active_connections[u]] = u)
    /\ [][\A c \in Conns :
             (pc[c] = "new" /\ pc'[c] # "new")
                 => active_connections'[conn_user'[c]] = c]_vars

\* C12 witness: a user connected twice and the later connection is the
\* user's entry.
C12_Witness ==
    \E c \in Conns, d \in Conns :
        /\ c < d
        /\ conn_user[c] # NoUser
        /\ conn_user[c] = conn_user[d]
        /\ alive[c]
        /\ active_connections[conn_user[d]] = d

\* C13: when a handler that found its transport closed calls
\* disconnect(user), the user's entry is gone afterwards and the call raises
\* no error (the handler ends normally).
C13_DisconnectNoError ==
    [][\A c \in Conns :
          (pc[c] = "recv" /\ ~alive[c] /\ pc'[c] # "recv")
              => /\ active_connections'[conn_user[c]] = NoConn
                 /\ pc'[c] = "closed"]_vars

\* C14: nothing is persisted for a submit whose sender equals its receiver:
\* no stored message has the same user as sender and receiver.
C14_SelfSubmitRejected ==
    \A ij \in Stored :
        chats[ij[1]].messages[ij[2]].sender
            # chats[ij[1]].messages[ij[2]].receiver

\* C15: a payload received on connection c is either accepted, and then it
\* has a receiver and a body, or rejected: the store is unchanged, c is sent
\* one error event, no other connection is sent anything and the handler
\* is back in its receive loop.
C15_InvalidRejected ==
    [][\A c \in Conns :
          (/\ pc[c] = "recv" /\ nsubmits' # nsubmits
           /\ pc'[c] # pc[c] \/ outbox'[c] # outbox[c])
          => \/ /\ pc'[c] \in {"append", "insert"}
                /\ chat_message'[c].receiver # NoUser
                /\ chat_message'[c].message # NoBody
             \/ /\ pc'[c] = "recv"
                /\ chats' = chats
                /\ Len(outbox'[c]) = Len(outbox[c]) + 1
                /\ outbox'[c][Len(outbox'[c])].type = "error"
                /\ \A d \in Conns \ {c} : outbox'[d] = outbox[d]]_vars

\* C15 witness: a connection has been sent an error event while another
\* user is connected and a thread is stored.
C15_Witness ==
    \E c \in Conns, d \in Conns :
        /\ c # d /\ pc[d] = "recv" /\ conn_user[d] # conn_user[c]
        /\ chats # <<>>
        /\ \E k \in DOMAIN outbox[c] : outbox[c][k].type = "error"

\* The positions of a submit at which it pushes, the user it pushes to and
\* the position that follows.
PushPcs == {"push_sender", "push_receiver", "receipt_sender",
            "receipt_receiver"}

PushTarget(c) ==
    IF pc[c] \in {"push_sender", "receipt_sender"}
    THEN chat_message[c].sender
    ELSE chat_message[c].receiver

AfterPush(p) ==
    CASE p = "push_sender" -> "push_receiver"
      [] p = "push_receiver" -> "set_delivered"
      [] p = "receipt_sender" -> "receipt_receiver"
      [] p = "receipt_receiver" -> "recv"

\* The push the submit on c is about to make goes to a registered connection
\* whose transport is closed.
StalePush(c) ==
    /\ pc[c] \in PushPcs
    /\ active_connections[PushTarget(c)] # NoConn
    /\ ~alive[active_connections[PushTarget(c)]]

C17_DeliveredReceiptToSender ==
    [][\A c \in Conns :
          (/\ pc[c] = "receipt_sender" /\ pc'[c] # pc[c]
           /\ chat_message[c].sender # chat_message[c].receiver
           /\ LiveConn(chat_message[c].sender) # NoConn
           /\ ThreadOf(chat_message[c].n) = chat_doc[c]._id
           /\ \E j \in DOMAIN chats[chat_doc[c]._id].messages :
                  /\ chats[chat_doc[c]._id].messages[j].n = chat_message[c].n
                  /\ chats[chat_doc[c]._id].messages[j].status = "delivered")
          => LET d == LiveConn(chat_message[c].sender)
             IN /\ Len(outbox'[d]) = Len(outbox[d]) + 1
                /\ outbox'[d][Len(outbox'[d])].type = "receipt"
                /\ outbox'[d][Len(outbox'[d])].id = chat_message[c].id
                /\ outbox'[d][Len(outbox'[d])].status = "delivered"
                /\ outbox'[d][Len(outbox'[d])].chat_id = chat_doc[c]._id]_vars

\* C18: the step of a history open that follows a lookup which found no
\* thread for a pair of two different users leaves the threads of the store
\* as they were.
C18_HistoryOpenCreatesNothing ==
    [][\A r \in Reqs :
          (/\ hpc[r] = "create" /\ hpc'[r] # "create"
           /\ hreq[r].current_user # hreq[r].other_user_id)
          => chats' = chats]_vars

\* C19: no push of a submit is attempted to a connection whose handler has
\* ended: when a handler has ended, for whatever reason, its connection is
\* no longer the entry of any user a push is made to.
C19_NoPushAfterClose ==
    [][\A c \in Conns :
          (pc[c] \in PushPcs /\ pc'[c] # pc[c]
               /\ active_connections[PushTarget(c)] # NoConn)
          => pc[active_connections[PushTarget(c)]]
                 \notin {"closed", "crashed"}]_vars

\* C21: when the append of a message, or the insert of its thread, fails,
\* the store is unchanged, the submitting connection is sent one error event
\* and no connection has been sent a message or receipt event of that
\* submit.
C21_FailedAppendNoEffect ==
    [][\A c \in Conns :
          (pc[c] \in {"append", "insert"} /\ pc'[c] = "recv")
          => /\ chats' = chats
             /\ Len(outbox'[c]) = Len(outbox[c]) + 1
             /\ outbox'[c][Len(outbox'[c])].type = "error"
             /\ \A d \in Conns \ {c} : outbox'[d] = outbox[d]
             /\ \A d \in Conns : \A k \in DOMAIN outbox'[d] :
                    outbox'[d][k].n # chat_message[c].n]_vars

\* C21 witness: the insert of a first thread has failed and its submitter
\* has been told, while another user is connected.
C21_Witness ==
    \E c \in Conns, d \in Conns :
        /\ chats = <<>>
        /\ pc[d] = "recv" /\ conn_user[d] # conn_user[c]
        /\ \E k \in DOMAIN outbox[c] :
               outbox[c][k].message = "Failed to send message"

\* The positions of its looked-up thread that a history open selected:
\* delivered messages addressed to the reader.
Selected(r) ==
    {j \in DOMAIN hchat[r].messages :
        /\ hchat[r].messages[j].receiver = hreq[r].current_user
        /\ hchat[r].messages[j].status = "delivered"}

\* C22: while a history open of a thread between two different users is
\* marking, the stored state never has some of the messages it selected
\* read and others of them still delivered.
C22_ReadBatchAtomic ==
    \A r \in Reqs :
        (hpc[r] = "mark" /\ hreq[r].current_user # hreq[r].other_user_id)
        => \A j \in Selected(r), k \in Selected(r) :
               ~(/\ chats[hchat[r]._id].messages[j].status = "read"
                 /\ chats[hchat[r]._id].messages[k].status = "delivered")

\* The stored status of submit n, "none" when it is not stored.
StatusOf(n) ==
    IF ThreadOf(n) = 0 THEN "none"
    ELSE chats[ThreadOf(n)].messages[PositionOf(ThreadOf(n), n)].status

\* Submit n is in progress on c and its receiver's entry is a connection
\* whose transport has stalled.
ToStalled(c, n) ==
    /\ chat_message[c].n = n
    /\ chat_message[c].sender # chat_message[c].receiver
    /\ active_connections[chat_message[c].receiver] # NoConn
    /\ pc[active_connections[chat_message[c].receiver]] = "stalled"

C24_DistinctIdsInThread ==
    \A i \in DOMAIN chats :
        chats[i].users[1] # chats[i].users[2]
        => \A j \in DOMAIN chats[i].messages, k \in DOMAIN chats[i].messages :
               j # k => chats[i].messages[j].id # chats[i].messages[k].id

\* C25: every stored message has a sender different from its receiver, and
\* its sender and receiver are the two participants of its thread.
C25_MessagePairIsThreadPair ==
    \A ij \in Stored :
        /\ chats[ij[1]].messages[ij[2]].sender
               # chats[ij[1]].messages[ij[2]].receiver
        /\ {chats[ij[1]].messages[ij[2]].sender,
            chats[ij[1]].messages[ij[2]].receiver}
               = {chats[ij[1]].users[1], chats[ij[1]].users[2]}

\* C26: every step leaves each thread in place with its stored messages
\* present, at their positions and with their content (only the status of
\* a message may change), and adds at most one message, at the end.
C26_AppendOnly ==
    [][/\ Len(chats') >= Len(chats)
       /\ \A i \in DOMAIN chats :
              /\ chats'[i].users = chats[i].users
              /\ Len(chats'[i].messages) >= Len(chats[i].messages)
              /\ Len(chats'[i].messages) <= Len(chats[i].messages) + 1
              /\ \A j \in DOMAIN chats[i].messages :
                     /\ chats'[i].messages[j].n = chats[i].messages[j].n
                     /\ chats'[i].messages[j].id = chats[i].messages[j].id
                     /\ chats'[i].messages[j].sender
                            = chats[i].messages[j].sender
                     /\ chats'[i].messages[j].receiver
                            = chats[i].messages[j].receiver
                     /\ chats'[i].messages[j].message
                            = chats[i].messages[j].message]_vars

\* C26 witness: a thread that was blocked and whose history was opened
\* holds two messages, the first of them read.
C26_Witness ==
    \E i \in DOMAIN chats : \E r \in Reqs :
        /\ chats[i].is_blocked
        /\ hpc[r] = "done"
        /\ Len(chats[i].messages) = 2
        /\ chats[i].messages[1].status = "read"
        /\ chats[i].messages[1].n # chats[i].messages[2].n

\* C27: a push of a submit to a registered connection whose transport is
\* closed leaves the persisted status of every stored message as it was; in
\* particular the delivered status the submit has just persisted.
C27_StalePushKeepsStatus ==
    [][\A c \in Conns :
          (StalePush(c) /\ pc'[c] # pc[c])
          => \A ij \in Stored :
                 chats'[ij[1]].messages[ij[2]].status
                     = chats[ij[1]].messages[ij[2]].status]_vars

\* C27 witness: a submit has returned with its message delivered; the
\* receiver's connection was sent the message, was closed before the receipt
\* push and lost its entry by that push.
C27_Witness ==
    \E x \in completed, d \in Conns :
        /\ x.sender # x.receiver
        /\ conn_user[d] = x.receiver
        /\ ~alive[d] /\ pc[d] = "recv"
        /\ active_connections[x.receiver] = NoConn
        /\ \E k \in DOMAIN outbox[d] :
               outbox[d][k].type = "message" /\ outbox[d][k].n = x.n
        /\ \A k \in DOMAIN outbox[d] :
               ~(outbox[d][k].type = "receipt" /\ outbox[d][k].n = x.n)
        /\ StatusOf(x.n) = "delivered"

\* C28: when the update that persists delivered fails, the store is
\* unchanged, the message is in its thread with status sent and the
\* submitting connection is sent one error event; and a history open that
\* leaves its marking with a selected message not yet updated ends with an
\* error, not with a history.
C28_StatusFailureSurfaced ==
    [][/\ \A c \in Conns :
              (pc[c] = "set_delivered" /\ pc'[c] = "recv")
              => /\ chats' = chats
                 /\ StatusOf(chat_message[c].n) = "sent"
                 /\ Len(outbox'[c]) = Len(outbox[c]) + 1
                 /\ outbox'[c][Len(outbox'[c])].type = "error"
       /\ \A r \in Reqs :
              (hpc[r] = "mark" /\ htodo[r] # <<>> /\ hpc'[r] # "mark")
              => hpc'[r] = "error" /\ chats' = chats]_vars

\* C28 witness: a history open has ended with an error, and a submit whose
\* delivered update failed has left its message stored as sent and its
\* submitter told.
C28_Witness ==
    /\ \E r \in Reqs : hpc[r] = "error"
    /\ \E c \in Conns : \E k \in DOMAIN outbox[c] :
           outbox[c][k].message = "Failed to send message"
    /\ \E ij \in StoredPair :
           /\ chats[ij[1]].messages[ij[2]].status = "sent"
           /\ \A c \in Conns :
                  chat_message[c].n # chats[ij[1]].messages[ij[2]].n

\* C29: the error a connection is sent when its payload is rejected on
\* receipt, before the store is touched, is never the error that is sent for
\* a failed store operation.
C29_RejectionNotPersistenceError ==
    [][\A c \in Conns :
          (/\ pc[c] = "recv" /\ pc'[c] = "recv"
           /\ nsubmits' # nsubmits
           /\ Len(outbox'[c]) = Len(outbox[c]) + 1)
          => outbox'[c][Len(outbox'[c])]
                 # ErrorEvent("Failed to send message")]_vars

\* The handler of connection c has ended.
Ended(c) == pc[c] \in {"closed", "crashed"}

LastMessage(i) == chats[i].messages[Len(chats[i].messages)]

\* C31: the step that appends a message to a thread, or creates the thread
\* with it, sets the thread's last_updated to the time of that step, and the
\* last_updated of a thread is never older than the append of its last
\* message.
C31_LastUpdatedOnAppend ==
    /\ [](\A i \in DOMAIN chats :
             chats[i].messages # <<>>
             => /\ appended[LastMessage(i).n] > 0
                /\ chats[i].last_updated >= appended[LastMessage(i).n])
    /\ [][\A i \in DOMAIN chats' :
             (\/ i \notin DOMAIN chats /\ chats'[i].messages # <<>>
              \/ /\ i \in DOMAIN chats
                 /\ Len(chats'[i].messages) > Len(chats[i].messages))
             => /\ clock' > clock
                /\ chats'[i].last_updated = clock']_vars

\* C31 witness: a thread between two different users holds two messages
\* appended at different times, and its last_updated is the time of the
\* second append.
C31_Witness ==
    \E i \in DOMAIN chats :
        /\ chats[i].users[1] # chats[i].users[2]
        /\ Len(chats[i].messages) = 2
        /\ appended[chats[i].messages[1].n] > 0
        /\ appended[chats[i].messages[2].n] > appended[chats[i].messages[1].n]
        /\ chats[i].last_updated = appended[chats[i].messages[2].n]

\* C32: when the handler of a connection that is no longer its user's entry
\* (a later connection of the user has replaced it) ends after its transport
\* closed, the entry of the later connection stays in the registry.
C32_OldCloseKeepsNewEntry ==
    [][\A c \in Conns :
          (/\ pc[c] = "recv" /\ ~alive[c] /\ pc'[c] # "recv"
           /\ active_connections[conn_user[c]] \notin {NoConn, c}
           /\ alive[active_connections[conn_user[c]]])
          => active_connections'[conn_user[c]]
                 = active_connections[conn_user[c]]]_vars

\* The positions of the handler of a submit in progress.
SubmitPcs == {"append", "insert", "reget", "set_delivered"} \cup PushPcs

\* C33: the message a submit works on has the user of the submitting
\* connection as its sender; so has the stored message in the state in which
\* the submit has just appended it, and so has every message event one of
\* its pushes adds to a connection's events.
C33_SenderIsConnectionUser ==
    /\ [](\A c \in Conns :
             pc[c] \in SubmitPcs => chat_message[c].sender = conn_user[c])
    /\ [][\A c \in Conns :
             /\ (pc[c] \in {"append", "insert"}
                     /\ pc'[c] \in {"push_sender", "reget"})
                => \E i \in DOMAIN chats' :
                       /\ LET last == chats'[i].messages[Len(chats'[i].messages)]
                          IN /\ last.n = chat_message[c].n
                             /\ last.sender = conn_user[c]
                       /\ i \notin DOMAIN chats
                              \/ Len(chats'[i].messages)
                                     > Len(chats[i].messages)
             /\ (pc[c] \in {"push_sender", "push_receiver"}
                     /\ pc'[c] # pc[c])
                => \A d \in Conns :
                       outbox'[d] # outbox[d]
                       => /\ outbox'[d][Len(outbox'[d])].type = "message"
                          /\ outbox'[d][Len(outbox'[d])].sender
                                 = conn_user[c]]_vars

\* C33 witness: a submit whose payload named another user as sender has
\* stored its message and pushed it to the receiver's connection, both with
\* the user of the submitting connection as sender.
C33_Witness ==
    \E c \in Conns, d \in Conns :
        /\ pc[c] = "set_delivered"
        /\ started[c].claimed \notin {NoUser, conn_user[c]}
        /\ chat_message[c].receiver # conn_user[c]
        /\ conn_user[d] = chat_message[c].receiver
        /\ \E ij \in Stored :
               /\ chats[ij[1]].messages[ij[2]].n = chat_message[c].n
               /\ chats[ij[1]].messages[ij[2]].sender = conn_user[c]
        /\ \E k \in DOMAIN outbox[d] :
               /\ outbox[d][k].type = "message"
               /\ outbox[d][k].n = chat_message[c].n
               /\ outbox[d][k].sender = conn_user[c]

\* C34: the delivered update of a submit between two different users, whose
\* message is in the thread the submit looked up, sets the stored status of
\* that message to delivered and leaves the status of every other stored
\* message as it was.
C34_DeliveredUpdatesOwnMessage ==
    [][\A c \in Conns :
          (/\ pc[c] = "set_delivered" /\ pc'[c] = "receipt_sender"
           /\ chat_message[c].sender # chat_message[c].receiver
           /\ ThreadOf(chat_message[c].n) = chat_doc[c]._id)
          => \A ij \in Stored :
                 chats'[ij[1]].messages[ij[2]].status
                     = IF chats[ij[1]].messages[ij[2]].n = chat_message[c].n
                       THEN "delivered"
                       ELSE chats[ij[1]].messages[ij[2]].status]_vars

\* The two participants of thread i, as a set.
PairOf(i) == {chats[i].users[1], chats[i].users[2]}

\* C35: the lookup of a submit or of a history open changes no thread, and
\* every later step of a submit or of a history open leaves each thread of
\* another pair as it was: its messages with their statuses, its blocked
\* flag and its last_updated.
C35_OtherThreadsUnchanged ==
    [][/\ \A c \in Conns :
              /\ (pc[c] = "recv" /\ nsubmits' # nsubmits) => chats' = chats
              /\ (pc[c] \in SubmitPcs /\ pc'[c] # pc[c])
                     => \A i \in DOMAIN chats :
                            PairOf(i) # {chat_message[c].sender,
                                         chat_message[c].receiver}
                            => chats'[i] = chats[i]
       /\ \A r \in Reqs :
              /\ (hpc[r] = "new" /\ hpc'[r] # "new") => chats' = chats
              /\ (hpc[r] \in {"create", "mark", "final"}
                      /\ (hpc'[r] # hpc[r] \/ htodo'[r] # htodo[r]))
                     => \A i \in DOMAIN chats :
                            PairOf(i) # {hreq[r].current_user,
                                         hreq[r].other_user_id}
                            => chats'[i] = chats[i]]_vars

\* C35 witness: the store holds the threads of two different pairs of two
\* different participants each, both with a message; the one that was
\* updated first holds a delivered message, and a history open has returned.
C35_Witness ==
    \E i \in DOMAIN chats, k \in DOMAIN chats :
        /\ PairOf(i) # PairOf(k)
        /\ Cardinality(PairOf(i)) = 2 /\ Cardinality(PairOf(k)) = 2
        /\ chats[i].messages # <<>> /\ chats[k].messages # <<>>
        /\ chats[i].messages[1].status = "delivered"
        /\ chats[k].last_updated > chats[i].last_updated
        /\ \E r \in Reqs : hpc[r] = "done"

\* C36: a connection whose token failed validation has no user, is the
\* registry entry of no user, has no submit in progress, is sent nothing and
\* stays so; a handler without a user never reaches the receive loop; and
\* the sender of every stored message and of every pushed event is the user
\* of a connection whose token was accepted.
C36_InvalidTokenShutOut ==
    /\ [](\A c \in Conns :
             /\ pc[c] = "rejected"
                => /\ conn_user[c] = NoUser
                   /\ \A u \in Users : active_connections[u] # c
                   /\ chat_message[c] = NoMessage
                   /\ outbox[c] = <<>>
             /\ conn_user[c] = NoUser => pc[c] \in {"new", "rejected"})
    /\ [](\A i \in DOMAIN chats : \A j \in DOMAIN chats[i].messages :
             \E c \in Conns :
                 /\ pc[c] # "rejected"
                 /\ conn_user[c] = chats[i].messages[j].sender)
    /\ [](\A d \in Conns : \A k \in DOMAIN outbox[d] :
             outbox[d][k].type = "message"
             => \E c \in Conns :
                    /\ pc[c] # "rejected"
                    /\ conn_user[c] = outbox[d][k].sender)
    /\ [][\A c \in Conns :
             pc[c] = "rejected" => pc'[c] = "rejected"]_vars

\* C36 witness: the websocket opened by the receiver of a message was
\* rejected for its token; the submit has returned, the message is stored
\* and the receiver has no entry.
C36_Witness ==
    \E c \in Conns, x \in completed :
        /\ pc[c] = "rejected"
        /\ x.sender # x.receiver
        /\ active_connections[x.receiver] = NoConn
        /\ ThreadOf(x.n) # 0

\* Connection c has been sent an error event.
HasError(c) == \E k \in DOMAIN outbox[c] : outbox[c][k].type = "error"

\* C37: the step in which the handler of a connection sends it an error
\* (for a rejected payload or for a failed store operation) leaves the
\* handler in its receive loop, the transport open and the registry as it
\* was; and a connection that has been sent an error and waits in its
\* receive loop can still have its next payload received.
C37_ErrorKeepsConnection ==
    /\ [][\A c \in Conns :
             (/\ Len(outbox'[c]) = Len(outbox[c]) + 1
              /\ outbox'[c][Len(outbox'[c])].type = "error")
             => /\ pc'[c] = "recv"
                /\ alive'[c]
                /\ active_connections' = active_connections]_vars
    /\ [](\A c \in Conns :
             (HasError(c) /\ nsubmits < MaxSubmits)
             => /\ pc[c] \in {"recv"} \cup SubmitPcs
                /\ pc[c] = "recv"
                   => ENABLED (\E data \in PlainPayloads : Receive(c, data)))

\* C37 witness: a connection that was sent an error is still its user's
\* entry and a submit it made afterwards has returned: the message was
\* pushed to it after the error and is stored as delivered.
C37_Witness ==
    \E c \in Conns, x \in completed :
        /\ x.sender = conn_user[c] /\ x.sender # x.receiver
        /\ active_connections[conn_user[c]] = c
        /\ StatusOf(x.n) = "delivered"
        /\ \E k \in DOMAIN outbox[c], l \in DOMAIN outbox[c] :
               /\ k < l
               /\ outbox[c][k].type = "error"
               /\ outbox[c][l].type = "message"
               /\ outbox[c][l].n = x.n

\* C38: once every websocket a user has opened is past the creation of the
\* welcome thread, exactly one thread of that user and the system identity
\* exists.
C38_WelcomeThreadOnce ==
    \A u \in Users :
        (/\ \E c \in Conns : conn_user[c] = u
         /\ \A c \in Conns :
                conn_user[c] = u => pc[c] \notin {"initial", "initial_get"})
        => Cardinality(ThreadsOf({u, skillarena})) = 1

====
